---- MODULE Spec2Model ----
(***************************************************************************)
(* SolarFlow - Smart Energy Management.                                    *)
(*                                                                         *)
(* The energy balance and device scheduling cycle as the repository        *)
(* implements it (TerminalAnimation.startSimulation), the hysteresis gate  *)
(* (TerminalAnimation.canSwitchDevice), the device registration form       *)
(* (DevicesController.saveDevice), the dashboard's polling                 *)
(* (SolarFlowApp.updateAll, startUpdates, pauseUpdates, resumeUpdates)     *)
(* and the browser-side controllers: SettingsController.saveSettings,      *)
(* ApiClient.request, ChartManager.updatePowerChart, TabController,        *)
(* TranslationSystem and the three formatRuntime versions.                 *)
(*                                                                         *)
(* Number representation.  The code computes in IEEE doubles; the model    *)
(* computes the same expressions exactly, in fixed units:                  *)
(*   powers     tenths of a watt (inputs are whole watts, the only         *)
(*              fractional factor in the code is 0.9)                      *)
(*   batterySoc tenths of a percent                                        *)
(*   runtime    sixtieths of a minute (the code adds 2/60 min per cycle)   *)
(*   savings    1/45000000 EUR (selfConsumption/1000*0.40/1800 per cycle   *)
(*              is selfConsumption[dW] / 45000000)                         *)
(*   autarky    a fraction num/den of a percent                            *)
(*   time       milliseconds, as Date.now()                                *)
(***************************************************************************)
EXTENDS Integers, Sequences, FiniteSets, TLC

VARIABLES values, devices, now, cycles, gate, form, evaluated, app, ui

vars == <<values, devices, now, cycles, gate, form, evaluated, app, ui>>

\* ------------------------------------------------------------------ bounds

\* Cycles explored by Spec.
MaxCycles == 4

\* Cycles explored by SpecExample (67 charging cycles take the battery from
\* 75 % to 95 %, after which a surplus no longer charges it).
MaxExampleCycles == 70

\* Date.now() at construction.
StartTime == 1000000

\* Characters typed into one field of the add-device form.
MaxFieldLen == 2

\* createDevice requests explored by SpecSave.
MaxRequests == 1

\* Cycles explored by SpecSort.
MaxSortCycles == 2

\* Cycles explored by SpecClock.
MaxClockCycles == 3

\* updateAll calls explored by SpecApp and SpecAppHelp.
MaxUpdates == 4

\* startUpdates calls explored by SpecApp and SpecAppHelp.
MaxStarts == 3

\* Whole watts to the model's tenths of a watt.
W(x) == x * 10

Min(a, b) == IF a < b THEN a ELSE b

Max(a, b) == IF a > b THEN a ELSE b

\* ------------------------------------------------------------ input domains

\* pvPower is Math.max(0, (5000*dayFactor + (random-0.5)*2000) * (0.7+random*0.6)),
\* a value in [0, 7800) W.
PvInputs == {W(0), W(2000), W(4260)}

\* baseLoad is 800 + random*1200, a value in [800, 2000) W.
BaseLoadInputs == {W(800), W(1842)}

\* (random - 0.5) * 5 is a value in [-2.5, 2.5) percent; here in half percents.
JitterInputs == {-4, 0, 4}

\* setInterval(.., 2000) runs the callback no sooner than 2000 ms after the
\* previous run; the browser may run it later (a throttled or suspended page).
Delays == {2000, 298000}

\* ------------------------------------------------------------------- state

\* device.lastSwitch: null
Null == -1

hysteresisTime == 5 * 60 * 1000

InitValues ==
    [pvPower |-> 0, loadPower |-> 0, gridPower |-> 0, batteryPower |-> 0,
     batterySoc |-> 750, selfConsumption |-> 0,
     autarky |-> [num |-> 0, den |-> 1], surplus |-> 0, savings |-> 0]

InitDevices ==
    << [nameKey |-> "heatPump", priority |-> 1, power |-> W(500),
        status |-> "off", runtime |-> 0, lastSwitch |-> Null,
        switchOnThreshold |-> W(700), switchOffThreshold |-> W(100)],
       [nameKey |-> "washingMachine", priority |-> 3, power |-> W(2000),
        status |-> "off", runtime |-> 0, lastSwitch |-> Null,
        switchOnThreshold |-> W(2200), switchOffThreshold |-> W(200)],
       [nameKey |-> "poolPump", priority |-> 7, power |-> W(800),
        status |-> "off", runtime |-> 0, lastSwitch |-> Null,
        switchOnThreshold |-> W(1000), switchOffThreshold |-> W(150)] >>

\* ------------------------------------------------------- hysteresis gate

\* JavaScript's !x for a value that is null or a number.
Falsy(x) == x = Null \/ x = 0

\* canSwitchDevice with the window left out of the comparison.
canSwitchDevice_NoWindow(device, dateNow) ==
    IF Falsy(device.lastSwitch) THEN TRUE
    ELSE LET timeSinceLastSwitch == dateNow - device.lastSwitch
         IN  timeSinceLastSwitch >= 0

canSwitchDevice(device, dateNow) ==
    IF Falsy(device.lastSwitch) THEN TRUE
    ELSE LET timeSinceLastSwitch == dateNow - device.lastSwitch
         IN  timeSinceLastSwitch >= hysteresisTime

\* ------------------------------------------------------- the control cycle

\* Positions of devs whose priority is below that of devs[i], or equal to it
\* and earlier in the list: the place a stable sort gives devs[i].
Rank(devs, i) ==
    Cardinality({j \in 1..Len(devs) :
        \/ devs[j].priority < devs[i].priority
        \/ devs[j].priority = devs[i].priority /\ j < i})

\* The devices evaluated in the order of the list, without the sort.
sortedDevices_Unsorted(devs) == [k \in 1..Len(devs) |-> k]

\* [...this.devices].sort((a, b) => a.priority - b.priority), as the sequence of
\* positions in this.devices (the sorted copy shares the device objects).
sortedDevices(devs) ==
    [k \in 1..Len(devs) |-> CHOOSE i \in 1..Len(devs) : Rank(devs, i) = k - 1]

\* The switching decision of one forEach step.
SwitchOn(device, surplus, dateNow) ==
    /\ device.status = "off"
    /\ surplus > device.switchOnThreshold
    /\ canSwitchDevice(device, dateNow)

SwitchOff(device, surplus, dateNow) ==
    /\ device.status = "on"
    /\ surplus < device.switchOffThreshold
    /\ canSwitchDevice(device, dateNow)

Switched(device, surplus, dateNow) ==
    IF SwitchOn(device, surplus, dateNow)
    THEN [device EXCEPT !.status = "on", !.lastSwitch = dateNow]
    ELSE IF SwitchOff(device, surplus, dateNow)
    THEN [device EXCEPT !.status = "off", !.lastSwitch = dateNow]
    ELSE device

\* One forEach step with the runtime counted on the status before the decision.
StepDevice_BeforeDecision(device, surplus, dateNow) ==
    LET d == Switched(device, surplus, dateNow)
    IN  IF device.status = "on" THEN [d EXCEPT !.runtime = @ + 2] ELSE d

\* One forEach step: the decision, then the runtime of a device that is on.
StepDevice(device, surplus, dateNow) ==
    LET d == Switched(device, surplus, dateNow)
    IN  IF d.status = "on" THEN [d EXCEPT !.runtime = @ + 2] ELSE d

RECURSIVE RunDevices(_, _, _, _, _)
\* sortedDevices.forEach from position k on: the devices and deviceConsumption.
RunDevices(order, k, devs, surplus, dateNow) ==
    IF k > Len(order) THEN [devs |-> devs, deviceConsumption |-> 0]
    ELSE LET i    == order[k]
             d    == StepDevice(devs[i], surplus, dateNow)
             rest == RunDevices(order, k + 1, [devs EXCEPT ![i] = d], surplus, dateNow)
         IN  [devs |-> rest.devs,
              deviceConsumption |->
                  (IF d.status = "on" THEN d.power ELSE 0) + rest.deviceConsumption]

\* The battery branch with the discharge left out of batteryContribution.
Battery_DischargeNotCounted(pvPower, loadPower, batterySoc) ==
    IF pvPower > loadPower /\ batterySoc < 950
    THEN LET surplus == pvPower - loadPower
         IN  [batteryPower |-> -Min((surplus * 9) \div 10, W(2500)),
              batterySoc |-> Min(1000, batterySoc + 3),
              batteryContribution |-> 0]
    ELSE IF pvPower < loadPower /\ batterySoc > 200
    THEN LET deficit == loadPower - pvPower
             power   == Min((deficit * 9) \div 10, W(2500))
         IN  [batteryPower |-> power,
              batterySoc |-> Max(0, batterySoc - 2),
              batteryContribution |-> 0]
    ELSE [batteryPower |-> 0, batterySoc |-> batterySoc, batteryContribution |-> 0]

\* The battery branch: batteryPower, batterySoc and batteryContribution.
Battery(pvPower, loadPower, batterySoc) ==
    IF pvPower > loadPower /\ batterySoc < 950
    THEN LET surplus == pvPower - loadPower
         IN  [batteryPower |-> -Min((surplus * 9) \div 10, W(2500)),
              batterySoc |-> Min(1000, batterySoc + 3),
              batteryContribution |-> 0]
    ELSE IF pvPower < loadPower /\ batterySoc > 200
    THEN LET deficit == loadPower - pvPower
             power   == Min((deficit * 9) \div 10, W(2500))
         IN  [batteryPower |-> power,
              batterySoc |-> Max(0, batterySoc - 2),
              batteryContribution |-> power]
    ELSE [batteryPower |-> 0, batterySoc |-> batterySoc, batteryContribution |-> 0]

OwnProduction(pvPower, batteryContribution) == pvPower + batteryContribution

SelfConsumption(loadPower, ownProduction) == Min(loadPower, ownProduction)

\* The grid power without its sign: feeding in reported as 0.
GridPower_NoFeedIn(loadPower, ownProduction) == Max(0, loadPower - ownProduction)

GridPower(loadPower, ownProduction) == loadPower - ownProduction

\* The surplus without its lower bound of 0.
Surplus_NoClamp(loadPower, ownProduction) == ownProduction - loadPower

Surplus(loadPower, ownProduction) == Max(0, ownProduction - loadPower)

\* The autarky with the variation added after the clamp instead of before it.
Autarky_NoClamp(selfConsumption, loadPower, jitter) ==
    LET l    == IF loadPower > 0 THEN loadPower ELSE 1
        den  == 2 * l
        base == IF loadPower > 0 THEN Min(100 * den, 200 * selfConsumption)
                ELSE 100 * den
    IN  [num |-> base + jitter * l, den |-> den]

\* The autarky in percent as num/den, den = 2 * loadPower (2 when the load is 0),
\* jitter in half percents: Math.min(100, self/load*100) or 100, then the
\* variation, clamped to [0, 100].
Autarky(selfConsumption, loadPower, jitter) ==
    LET l    == IF loadPower > 0 THEN loadPower ELSE 1
        den  == 2 * l
        base == IF loadPower > 0 THEN Min(100 * den, 200 * selfConsumption)
                ELSE 100 * den
    IN  [num |-> Max(0, Min(100 * den, base + jitter * l)), den |-> den]

\* The savings with 0.40 / 3600 in place of 0.40 / 1800: a cycle counted as one
\* second.
Savings_OneSecondCycle(savings, selfConsumption) == savings + selfConsumption \div 2

\* this.values.savings += selfConsumption / 1000 * 0.40 / 1800, in 1/45000000 EUR
\* with selfConsumption in tenths of a watt.
Savings(savings, selfConsumption) == savings + selfConsumption

\* One run of the setInterval callback.  (\E x \in {e} binds x to the value
\* of e, so that e is evaluated once.)
Cycle(pv, baseLoad, jitter, delay) ==
    \E dateNow \in {now + delay} :
    \E order \in {sortedDevices(devices)} :
    \E run \in {RunDevices(order, 1, devices, values.surplus, dateNow)} :
    \E load \in {baseLoad + run.deviceConsumption} :
    \E bat \in {Battery(pv, load, values.batterySoc)} :
    \E own \in {OwnProduction(pv, bat.batteryContribution)} :
    \E self \in {SelfConsumption(load, own)} :
        /\ now' = dateNow
        /\ devices' = run.devs
        /\ values' = [pvPower |-> pv,
                      loadPower |-> load,
                      gridPower |-> GridPower(load, own),
                      batteryPower |-> bat.batteryPower,
                      batterySoc |-> bat.batterySoc,
                      selfConsumption |-> self,
                      autarky |-> Autarky(self, load, jitter),
                      surplus |-> Surplus(load, own),
                      savings |-> Savings(values.savings, self)]
        /\ cycles' = cycles + 1
        /\ evaluated' = [k \in 1..Len(order) |-> devices[order[k]].nameKey]
        /\ UNCHANGED <<gate, form, app, ui>>

InitGate == [device |-> InitDevices[1], dateNow |-> 0, result |-> "none"]

\* DevicesController after construction: this.devices, the createDevice requests
\* sent so far, the saveDevice calls awaiting a response, the last notification
\* shown, and the device list the backend holds.
InitForm ==
    [devices |-> <<>>, requests |-> <<>>, pending |-> <<>>,
     notification |-> "none", registry |-> <<>>]

\* SolarFlowApp once the constructor has returned: init() has run up to its
\* first await, so the initial updateAll of startUpdates has sent its
\* getCurrentData request.  updates holds the updateAll calls in flight (pc: the
\* request awaited; currentData: its local constant; initial: called by
\* startUpdates; init: that startUpdates was called by init()), timers the intervals set and not cleared, listening
\* whether setupEventListeners has run, hidden and online the browser's
\* document.hidden and navigator.onLine, paused whether the last of
\* pauseUpdates, resumeUpdates and restartUpdates called was pauseUpdates,
\* started and created the updateAll calls and the intervals so far.
InitApp ==
    [variant |-> "main.js",
     updateInterval |-> 5000,
     intervalId |-> Null,
     timers |-> {},
     isConnected |-> FALSE,
     connectionCheckCounter |-> 0,
     helpModal |-> FALSE,
     updates |-> << [id |-> 1, pc |-> "current", currentData |-> "none",
                     initial |-> TRUE, init |-> TRUE] >>,
     listening |-> FALSE,
     hidden |-> FALSE,
     online |-> TRUE,
     paused |-> FALSE,
     started |-> 1,
     created |-> 0]

\* The browser-side controllers outside the poller (settings form, API
\* client, charts, tabs, language, runtime formatting); each has its own
\* specification below and is absent from the others.
InitUi == [kind |-> "none"]

Init ==
    /\ values = InitValues
    /\ devices = InitDevices
    /\ now = StartTime
    /\ cycles = 0
    /\ gate = InitGate
    /\ form = InitForm
    /\ evaluated = <<>>
    /\ app = InitApp
    /\ ui = InitUi

Tick ==
    /\ cycles < MaxCycles
    /\ \E pv \in PvInputs, baseLoad \in BaseLoadInputs,
          jitter \in JitterInputs, delay \in Delays :
            Cycle(pv, baseLoad, jitter, delay)

Next == Tick

Spec == Init /\ [][Next]_vars

\* ------------------------------------------- the README example, SpecExample

\* The simulation driven with the README's example reading (4235 W PV over a
\* base load of 1842 W) and with a small surplus (2000 W PV) that charges the
\* battery without reaching any switch-on threshold.
ExamplePvInputs == {W(2000), W(4235)}

ExampleBaseLoad == W(1842)

TickExample ==
    /\ cycles < MaxExampleCycles
    /\ \E pv \in ExamplePvInputs : Cycle(pv, ExampleBaseLoad, 0, 2000)

NextExample == TickExample

SpecExample == Init /\ [][NextExample]_vars

\* ------------------------------ the cycle against the clock, SpecClock

HourMs == 60 * 60 * 1000

DayMs == 24 * HourMs

\* new Date(t).getHours(), in a browser whose time zone is UTC.
getHours(t) == (t \div HourMs) % 24

\* Math.sin(Math.max(0, (hour - 6) / 12 * Math.PI)) in ten-thousandths.
dayFactor(hour) ==
    CASE hour <= 6  -> 0
      [] hour = 7   -> 2588
      [] hour = 8   -> 5000
      [] hour = 9   -> 7071
      [] hour = 10  -> 8660
      [] hour = 11  -> 9659
      [] hour = 12  -> 10000
      [] hour = 13  -> 9659
      [] hour = 14  -> 8660
      [] hour = 15  -> 7071
      [] hour = 16  -> 5000
      [] hour = 17  -> 2588
      [] hour = 18  -> 0
      [] hour = 19  -> -2588
      [] hour = 20  -> -5000
      [] hour = 21  -> -7071
      [] hour = 22  -> -8660
      [] OTHER      -> -9659

\* pv is a value Math.max(0, (5000*dayFactor + n) * f) can take at that hour,
\* n in [-1000, 1000) and f in [0.7, 1.3).
PvPossible(pv, hour) ==
    LET base == 5 * dayFactor(hour)
    IN  IF pv = 0 THEN base - W(1000) <= 0
        ELSE /\ pv * 10 < (base + W(1000)) * 13
             /\ pv * 10 >= (base - W(1000)) * 7

ClockPvInputs == {W(0), W(1000), W(2000), W(4260)}

\* Date.now() at construction: 08:00:00, and three seconds before midnight.
ClockStarts == {8 * HourMs, DayMs - 3000}

InitClock ==
    /\ values = InitValues
    /\ devices = InitDevices
    /\ now \in ClockStarts
    /\ cycles = 0
    /\ gate = InitGate
    /\ form = InitForm
    /\ evaluated = <<>>
    /\ app = InitApp
    /\ ui = InitUi

TickClock ==
    /\ cycles < MaxClockCycles
    /\ \E delay \in Delays, baseLoad \in BaseLoadInputs, jitter \in JitterInputs :
       \E pv \in {p \in ClockPvInputs : PvPossible(p, getHours(now + delay))} :
            Cycle(pv, baseLoad, jitter, delay)

NextClock == TickClock

SpecClock == InitClock /\ [][NextClock]_vars

\* ------------------------- the cycle at the thresholds' edges, SpecEdge

\* Readings that leave a surplus of exactly 700 W, the heat pump's
\* switchOnThreshold (1500 W PV over a base load of 800 W while the battery
\* charges), and a surplus above every switchOnThreshold.
EdgePvInputs == {W(1500), W(4260)}

EdgeBaseLoad == W(800)

TickEdge ==
    /\ cycles < MaxCycles
    /\ \E pv \in EdgePvInputs, jitter \in JitterInputs, delay \in Delays :
            Cycle(pv, EdgeBaseLoad, jitter, delay)

NextEdge == TickEdge

SpecEdge == Init /\ [][NextEdge]_vars

\* ------------------------------------ the sort of the cycle, SpecSort

\* Priorities given to the three devices: every assignment, so that the list is
\* held sorted, unsorted and with equal priorities.
SortPriorities == {1, 3, 7}

InitSort ==
    /\ values = InitValues
    /\ now = StartTime
    /\ cycles = 0
    /\ gate = InitGate
    /\ form = InitForm
    /\ evaluated = <<>>
    /\ app = InitApp
    /\ ui = InitUi
    /\ \E f \in [1..Len(InitDevices) -> SortPriorities] :
          devices = [i \in 1..Len(InitDevices) |->
                        [InitDevices[i] EXCEPT !.priority = f[i]]]

TickSort ==
    /\ cycles < MaxSortCycles
    /\ \E pv \in PvInputs, baseLoad \in BaseLoadInputs :
            Cycle(pv, baseLoad, 0, 2000)

NextSort == TickSort

SpecSort == InitSort /\ [][NextSort]_vars

\* --------------------------------------- canSwitchDevice alone, SpecGate

GateLastSwitch == {Null, 0, 1, 60000, 299999, 300000, 300001, 600000}

GateNow == {0, 1, 299999, 300000, 300001, 360000, 599999, 600000, 600001, 900000}

InitGateSpec ==
    /\ values = InitValues
    /\ devices = InitDevices
    /\ now = StartTime
    /\ cycles = 0
    /\ form = InitForm
    /\ evaluated = <<>>
    /\ app = InitApp
    /\ ui = InitUi
    /\ \E ls \in GateLastSwitch, t \in GateNow :
          gate = [device |-> [InitDevices[1] EXCEPT !.lastSwitch = ls],
                  dateNow |-> t, result |-> "none"]

\* One call canSwitchDevice(device) at Date.now() = gate.dateNow.
CallCanSwitch ==
    /\ gate.result = "none"
    /\ gate' = [gate EXCEPT !.result =
                   IF canSwitchDevice(gate.device, gate.dateNow) THEN "true" ELSE "false"]
    /\ UNCHANGED <<values, devices, now, cycles, form, evaluated, app, ui>>

NextGate == CallCanSwitch

SpecGate == InitGateSpec /\ [][NextGate]_vars

\* ------------------------------- DevicesController.saveDevice, SpecSave

\* A JavaScript number that may be NaN.
NaN == [nan |-> TRUE, val |-> 0]

Num(n) == [nan |-> FALSE, val |-> n]

\* a > b and a <= b on JavaScript numbers: false when either is NaN.
JsGt(a, b) == ~a.nan /\ ~b.nan /\ a.val > b.val

JsLeq(a, b) == ~a.nan /\ ~b.nan /\ a.val <= b.val

Chars == {"1", "2", "-", " ", "a"}

Digits == <<"0", "1", "2", "3", "4", "5", "6", "7", "8", "9">>

Digit(c) == IF \E d \in 1..10 : Digits[d] = c
            THEN (CHOOSE d \in 1..10 : Digits[d] = c) - 1
            ELSE -1

IsDigit(c) == Digit(c) >= 0

\* The texts a field can hold: the sequences of at most MaxFieldLen characters.
FieldTexts == UNION {[1..n -> Chars] : n \in 0..MaxFieldLen}

RECURSIVE SkipSpace(_)
SkipSpace(text) ==
    IF text # <<>> /\ Head(text) = " " THEN SkipSpace(Tail(text)) ELSE text

RECURSIVE ParseDigits(_, _, _)
\* The longest run of digits at the head of text, read in base 10.
ParseDigits(text, acc, seen) ==
    IF text # <<>> /\ IsDigit(Head(text))
    THEN ParseDigits(Tail(text), acc * 10 + Digit(Head(text)), TRUE)
    ELSE [val |-> acc, seen |-> seen]

\* parseInt(text): leading white space skipped, an optional sign, then digits up
\* to the first character that is none; NaN when there is no digit.
parseInt(text) ==
    LET t    == SkipSpace(text)
        neg  == t # <<>> /\ Head(t) = "-"
        body == IF neg THEN Tail(t) ELSE t
        p    == ParseDigits(body, 0, FALSE)
    IN  IF p.seen THEN Num(IF neg THEN -p.val ELSE p.val) ELSE NaN

\* The device object saveDevice builds from the form.  The name and the two
\* thresholds are kept; description, power_consumption, priority, min_runtime,
\* max_runtime_per_day and allowed_time_ranges are copied from the form the same
\* way and take part in no decision of saveDevice.
FormDevice(name, onText, offText) ==
    [name |-> name,
     switch_on_threshold |-> parseInt(onText),
     switch_off_threshold |-> parseInt(offText)]

\* The threshold validation: true when the device is rejected.
ThresholdsRejected(device) ==
    JsGt(device.switch_off_threshold, device.switch_on_threshold)

\* saveDevice up to its first await.  valid is the browser's answer to
\* this.form.checkValidity().
SaveDevice(valid, name, onText, offText) ==
    /\ Len(form.requests) < MaxRequests
    /\ IF ~valid
       THEN UNCHANGED form
       ELSE LET device == FormDevice(name, onText, offText)
            IN  IF ThresholdsRejected(device)
                THEN form' = [form EXCEPT !.notification = "error"]
                ELSE form' = [form EXCEPT
                        !.requests = Append(@, device),
                        !.pending = Append(@, [stage |-> "createDevice", device |-> device])]
    /\ UNCHANGED <<values, devices, now, cycles, gate, evaluated, app, ui>>

Remove(seq, k) == [i \in 1..(Len(seq) - 1) |-> IF i < k THEN seq[i] ELSE seq[i + 1]]

\* The backend's registry after it accepted a createDevice request.
BackendCreate(registry, device) == Append(registry, device)

\* api.createDevice resolved with a response: the success notification, the
\* modal closed, api.getDevices requested.
CreateDeviceOk ==
    \E k \in 1..Len(form.pending) :
        /\ form.pending[k].stage = "createDevice"
        /\ form' = [form EXCEPT
              !.registry = BackendCreate(@, form.pending[k].device),
              !.notification = "success",
              !.pending[k].stage = "getDevices"]
        /\ UNCHANGED <<values, devices, now, cycles, gate, evaluated, app, ui>>

\* api.createDevice or api.getDevices threw: the catch block.
RequestFailed ==
    \E k \in 1..Len(form.pending) :
        /\ form' = [form EXCEPT
              !.notification = "error",
              !.pending = Remove(@, k)]
        /\ UNCHANGED <<values, devices, now, cycles, gate, evaluated, app, ui>>

\* api.getDevices resolved: this.update(devicesData).
GetDevicesOk ==
    \E k \in 1..Len(form.pending) :
        /\ form.pending[k].stage = "getDevices"
        /\ form' = [form EXCEPT
              !.devices = form.registry,
              !.pending = Remove(@, k)]
        /\ UNCHANGED <<values, devices, now, cycles, gate, evaluated, app, ui>>

DeviceNames == {"A"}

NextSave ==
    \/ \E valid \in BOOLEAN, name \in DeviceNames, onText \in FieldTexts, offText \in FieldTexts :
          SaveDevice(valid, name, onText, offText)
    \/ CreateDeviceOk
    \/ RequestFailed
    \/ GetDevicesOk

SpecSave == Init /\ [][NextSave]_vars

\* ------------------------------ SolarFlowApp, SpecApp and SpecAppHelp

\* The failed updates after which updateAll's catch block marks a connected
\* dashboard disconnected: 3 in main.js, 1 in the variant with the help modal.
disconnectAfter(variant) == IF variant = "main.js" THEN 3 ELSE 1

\* The values the settings form passes as settings.updateInterval.
UpdateIntervals == {5000, 10000}

\* startUpdates calls so far: those that set their interval and those awaiting
\* their initial update.
Starts(a) ==
    a.created + Cardinality({k \in 1..Len(a.updates) : a.updates[k].initial})

\* A call of updateAll up to its first await: the getCurrentData request is out.
updateAll(a, initial, init) ==
    [a EXCEPT !.updates = Append(@, [id |-> a.started + 1, pc |-> "current",
                                     currentData |-> "none",
                                     initial |-> initial, init |-> init]),
              !.started = @ + 1]

\* startUpdates up to its await.
startUpdates(a) == updateAll(a, TRUE, FALSE)

pauseUpdates(a) ==
    IF a.intervalId # Null
    THEN [a EXCEPT !.timers = @ \ {a.intervalId}, !.intervalId = Null]
    ELSE a

resumeUpdates(a) == IF a.intervalId = Null THEN startUpdates(a) ELSE a

restartUpdates(a) == startUpdates(pauseUpdates(a))

\* updateAll after getCurrentData resolved with data.
Connected(a) ==
    [a EXCEPT !.isConnected = TRUE,
              !.connectionCheckCounter = 0,
              !.helpModal = IF a.variant = "main.js" \/ a.isConnected THEN @ ELSE FALSE]

\* updateAll's catch block.
Catch(a) ==
    LET counter == a.connectionCheckCounter + 1
        b       == [a EXCEPT !.connectionCheckCounter = counter]
    IN  IF counter >= disconnectAfter(a.variant) /\ a.isConnected
        THEN [b EXCEPT !.isConnected = FALSE,
                       !.helpModal = IF a.variant = "main.js" THEN @ ELSE TRUE]
        ELSE IF a.variant # "main.js" /\ counter >= 1 /\ ~a.isConnected
        THEN [b EXCEPT !.helpModal = TRUE]
        ELSE b

\* updateAll number k returns.  The startUpdates that awaited it sets the
\* interval, and init(), if it awaited that startUpdates, sets up the listeners.
Return(a, k) ==
    LET u == a.updates[k]
        b == [a EXCEPT !.updates = Remove(@, k)]
    IN  IF u.initial
        THEN [b EXCEPT !.created = @ + 1,
                       !.intervalId = a.created + 1,
                       !.timers = @ \cup {a.created + 1},
                       !.listening = @ \/ u.init]
        ELSE b

AppUnchanged == UNCHANGED <<values, devices, now, cycles, gate, form, evaluated, ui>>

\* The request updateAll number k awaits is settled: with data, with an empty
\* body (JSON null) or with an error (a network error, a status that is not ok,
\* the 5 s timeout).
Respond(k, response) ==
    /\ k \in 1..Len(app.updates)
    /\ LET u == app.updates[k]
       IN  IF response = "error" THEN app' = Return(Catch(app), k)
           ELSE IF u.pc = "current"
           THEN app' = [(IF response = "data" THEN Connected(app) ELSE app) EXCEPT
                            !.updates[k].pc = "devices",
                            !.updates[k].currentData = response]
           ELSE IF u.pc = "devices"
           THEN app' = [app EXCEPT !.updates[k].pc = "stats"]
           ELSE app' = Return(app, k)
    /\ AppUnchanged

\* An interval that is set fires.
TimerFires ==
    /\ app.started < MaxUpdates
    /\ \E id \in app.timers : app' = updateAll(app, FALSE, FALSE)
    /\ AppUnchanged

\* visibilitychange: the page is hidden, or shown again.
VisibilityChange ==
    /\ app.listening
    /\ IF ~app.hidden
       THEN app' = [pauseUpdates(app) EXCEPT !.hidden = TRUE, !.paused = TRUE]
       ELSE /\ app.intervalId = Null =>
                  app.started < MaxUpdates /\ Starts(app) < MaxStarts
            /\ app' = [resumeUpdates(app) EXCEPT !.hidden = FALSE, !.paused = FALSE]
    /\ AppUnchanged

\* The browser goes offline.
Offline ==
    /\ app.listening
    /\ app.online
    /\ app' = [pauseUpdates(app) EXCEPT
                  !.online = FALSE,
                  !.isConnected = FALSE,
                  !.paused = TRUE,
                  !.helpModal = IF app.variant = "main.js" THEN @ ELSE TRUE]
    /\ AppUnchanged

\* The browser goes online.
Online ==
    /\ app.listening
    /\ ~app.online
    /\ app.intervalId = Null => app.started < MaxUpdates /\ Starts(app) < MaxStarts
    /\ app' = [resumeUpdates(app) EXCEPT !.online = TRUE, !.paused = FALSE]
    /\ AppUnchanged

\* onSettingsChange(settings) with a valid interval and the URL the settings
\* form always passes.
onSettingsChange(interval) ==
    LET changed == interval # app.updateInterval
        n       == IF changed THEN 2 ELSE 1
        a       == IF changed
                   THEN restartUpdates([app EXCEPT !.updateInterval = interval])
                   ELSE app
    IN  /\ app.started + n <= MaxUpdates
        /\ Starts(app) + n <= MaxStarts
        /\ app' = [restartUpdates(a) EXCEPT !.paused = FALSE]
        /\ AppUnchanged

\* The help modal's retry button.
Retry ==
    /\ app.helpModal
    /\ app.started < MaxUpdates
    /\ Starts(app) < MaxStarts
    /\ app' = [restartUpdates([app EXCEPT !.helpModal = FALSE,
                                          !.connectionCheckCounter = 0])
                  EXCEPT !.paused = FALSE]
    /\ AppUnchanged

\* The help modal's close button, its settings button, a click on its overlay.
hideHelpModal ==
    /\ app.helpModal
    /\ app' = [app EXCEPT !.helpModal = FALSE]
    /\ AppUnchanged

Responses == {"data", "empty", "error"}

NextApp ==
    \/ \E k \in 1..MaxUpdates, response \in Responses : Respond(k, response)
    \/ TimerFires
    \/ VisibilityChange
    \/ Offline
    \/ Online
    \/ \E interval \in UpdateIntervals : onSettingsChange(interval)

SpecApp == Init /\ [][NextApp]_vars

InitAppHelp ==
    /\ values = InitValues
    /\ devices = InitDevices
    /\ now = StartTime
    /\ cycles = 0
    /\ gate = InitGate
    /\ form = InitForm
    /\ evaluated = <<>>
    /\ app = [InitApp EXCEPT !.variant = "help"]
    /\ ui = InitUi

NextAppHelp ==
    \/ \E k \in 1..MaxUpdates, response \in Responses : Respond(k, response)
    \/ TimerFires
    \/ VisibilityChange
    \/ Offline
    \/ Online
    \/ \E interval \in UpdateIntervals : onSettingsChange(interval)
    \/ Retry
    \/ hideHelpModal

SpecAppHelp == InitAppHelp /\ [][NextAppHelp]_vars

\* ------------------- SettingsController.saveSettings, SpecSettings

MaxSaves == 3

\* The texts the API URL field is given, and the ones new URL(text) accepts
\* (an absolute URL with a scheme); the others make it throw.
UrlTexts == {"http://localhost:8000", "http://pi:8000", "localhost", ""}

ParsesAsUrl(text) == text \in {"http://localhost:8000", "http://pi:8000"}

\* The texts the interval field is given.
IntervalTexts ==
    {<<>>, <<"a">>, <<"5", "0", "0">>, <<"1", "0", "0", "0">>,
     <<"5", "0", "0", "0">>, <<"6", "0", "0", "0", "0">>,
     <<"6", "0", "0", "0", "1">>}

RECURSIVE DecimalDigits(_)
DecimalDigits(n) ==
    IF n < 10 THEN <<Digits[n + 1]>>
    ELSE Append(DecimalDigits(n \div 10), Digits[(n % 10) + 1])

\* String(number), the text localStorage.setItem keeps for a number.
NumberToString(n) ==
    IF n.nan THEN <<"N", "a", "N">>
    ELSE IF n.val < 0 THEN <<"-">> \o DecimalDigits(-n.val)
    ELSE DecimalDigits(n.val)

JsLt(a, b) == ~a.nan /\ ~b.nan /\ a.val < b.val

\* A number in a condition: NaN and 0 count as false.
Truthy(n) == ~n.nan /\ n.val # 0

validateSettings(settings) ==
    /\ ParsesAsUrl(settings.apiUrl)
    /\ ~(JsLt(settings.updateInterval, Num(1000))
           \/ JsGt(settings.updateInterval, Num(60000)))

\* ApiClient.setBaseUrl(url).
setBaseUrl(u, url) ==
    [u EXCEPT !.baseUrl = url, !.storage.apiUrl = url]

\* SolarFlowApp.onSettingsChange(settings), its effect on the interval and the
\* base URL in use (the restart of the poller is the action onSettingsChange).
onSettingsChangeValues(u, settings) ==
    LET u1 == IF Truthy(settings.updateInterval)
                 /\ settings.updateInterval # u.updateInterval
              THEN [u EXCEPT !.updateInterval = settings.updateInterval]
              ELSE u
    IN  IF settings.apiUrl # "" THEN setBaseUrl(u1, settings.apiUrl) ELSE u1

\* The page after construction with an empty localStorage: the defaults of
\* the ApiClient and SolarFlowApp constructors are in use, no save is awaiting
\* its connection test.
InitSettingsUi ==
    [kind |-> "settings",
     storage |-> [apiUrl |-> "", updateInterval |-> <<>>],
     baseUrl |-> "http://localhost:8000",
     updateInterval |-> Num(5000),
     pending |-> <<>>,
     saves |-> 0,
     op |-> "none",
     settings |-> [apiUrl |-> "", updateInterval |-> NaN],
     feedback |-> "none"]

InitSettings ==
    /\ values = InitValues
    /\ devices = InitDevices
    /\ now = StartTime
    /\ cycles = 0
    /\ gate = InitGate
    /\ form = InitForm
    /\ evaluated = <<>>
    /\ app = InitApp
    /\ ui = InitSettingsUi

UiUnchanged == UNCHANGED <<values, devices, now, cycles, gate, form, evaluated, app>>

\* saveSettings() up to its await: the settings are read from the form and
\* validated; valid ones are written to localStorage and the connection test
\* is started.
saveSettings(urlText, intervalText) ==
    /\ ui.saves < MaxSaves
    /\ \E settings \in {[apiUrl |-> urlText, updateInterval |-> parseInt(intervalText)]} :
          IF ~validateSettings(settings)
          THEN ui' = [ui EXCEPT !.saves = @ + 1, !.op = "saveSettings",
                                !.settings = settings, !.feedback = "error"]
          ELSE ui' = [ui EXCEPT !.saves = @ + 1, !.op = "saveSettings",
                                !.settings = settings, !.feedback = "none",
                                !.storage = [apiUrl |-> settings.apiUrl,
                                             updateInterval |->
                                                 NumberToString(settings.updateInterval)],
                                !.pending = Append(@, settings)]
    /\ UiUnchanged

\* The connection test of the k-th waiting save settles: on ok the app is
\* notified, otherwise (not ok, network error, timeout) the error is shown.
testConnection(k, ok) ==
    /\ k \in 1..Len(ui.pending)
    /\ \E settings \in {ui.pending[k]} :
       \E rest \in {Remove(ui.pending, k)} :
          IF ok
          THEN ui' = [onSettingsChangeValues(ui, settings) EXCEPT
                         !.pending = rest, !.op = "testConnection",
                         !.settings = settings, !.feedback = "success"]
          ELSE ui' = [ui EXCEPT
                         !.pending = rest, !.op = "testConnection",
                         !.settings = settings, !.feedback = "error"]
    /\ UiUnchanged

\* The page is loaded again: SolarFlowApp.loadSettings() takes what
\* localStorage holds; saves still waiting are gone with the old page.
loadSettings ==
    /\ ui.op # "loadSettings"
    /\ ui' = [ui EXCEPT
                 !.baseUrl = IF ui.storage.apiUrl # "" THEN ui.storage.apiUrl
                             ELSE "http://localhost:8000",
                 !.updateInterval = IF ui.storage.updateInterval # <<>>
                                    THEN parseInt(ui.storage.updateInterval)
                                    ELSE Num(5000),
                 !.pending = <<>>, !.op = "loadSettings", !.feedback = "none"]
    /\ UiUnchanged

NextSettings ==
    \/ \E urlText \in UrlTexts, intervalText \in IntervalTexts :
          saveSettings(urlText, intervalText)
    \/ \E k \in 1..MaxSaves, ok \in BOOLEAN : testConnection(k, ok)
    \/ loadSettings

SpecSettings == InitSettings /\ [][NextSettings]_vars

\* ------------------------------------- ApiClient.request, SpecRequest

MaxTicks == 8

MaxCalls == 2

\* The clock of a request advances in steps of TickMs.
TickMs == 1000

timeout == 5000

Statuses == {200, 404, 500}

\* response.ok
Ok(status) == status >= 200 /\ status <= 299

InitRequestUi ==
    [kind |-> "api", pc |-> "idle", elapsed |-> 0, timer |-> "none",
     aborted |-> FALSE, status |-> Null, result |-> "none", settledAt |-> Null,
     calls |-> 0]

InitRequest ==
    /\ values = InitValues
    /\ devices = InitDevices
    /\ now = StartTime
    /\ cycles = 0
    /\ gate = InitGate
    /\ form = InitForm
    /\ evaluated = <<>>
    /\ app = InitApp
    /\ ui = InitRequestUi

Settled(u) == u.pc \in {"returned", "thrown"}

\* request(endpoint) up to its first await: the abort timer is set and the
\* fetch is started.  The timer of an earlier request that failed without
\* clearing it plays no part in the new one.
request ==
    /\ ui.pc = "idle" \/ Settled(ui)
    /\ ui.calls < MaxCalls
    /\ ui' = [ui EXCEPT !.pc = "fetch", !.elapsed = 0, !.timer = "armed",
                        !.aborted = FALSE, !.status = Null, !.result = "none",
                        !.settledAt = Null, !.calls = @ + 1]
    /\ UiUnchanged

\* Time passes; a timer that is due fires before more time passes.
Elapse ==
    /\ ui.pc \in {"fetch", "body"} \/ ui.timer = "armed"
    /\ ui.elapsed < MaxTicks * TickMs
    /\ ~(ui.timer = "armed" /\ ui.elapsed >= timeout)
    /\ ui' = [ui EXCEPT !.elapsed = @ + TickMs]
    /\ UiUnchanged

\* fetch resolves with the response headers: the timer is cleared, a response
\* that is not ok throws, otherwise response.json() is awaited.
HeadersArrive(status) ==
    /\ ui.pc = "fetch"
    /\ ~ui.aborted
    /\ IF Ok(status)
       THEN ui' = [ui EXCEPT !.pc = "body", !.timer = "cleared", !.status = status]
       ELSE ui' = [ui EXCEPT !.pc = "thrown", !.timer = "cleared", !.status = status,
                             !.result = "HTTP error", !.settledAt = ui.elapsed]
    /\ UiUnchanged

\* fetch rejects with a network error: the catch rethrows it, the timer stays.
FetchFails ==
    /\ ui.pc = "fetch"
    /\ ~ui.aborted
    /\ ui' = [ui EXCEPT !.pc = "thrown", !.result = "network error",
                        !.settledAt = ui.elapsed]
    /\ UiUnchanged

\* response.json() settles: the parsed body is returned, or the parse error
\* is rethrown by the catch.
BodyArrives(parses) ==
    /\ ui.pc = "body"
    /\ ui' = [ui EXCEPT !.pc = IF parses THEN "returned" ELSE "thrown",
                        !.result = IF parses THEN "json" ELSE "parse error",
                        !.settledAt = ui.elapsed]
    /\ UiUnchanged

\* The timer set by request fires: controller.abort().  A fetch still waiting
\* rejects with an AbortError, which the catch turns into 'Request timeout'.
TimeoutFires ==
    /\ ui.timer = "armed"
    /\ ui.elapsed >= timeout
    /\ ui' = [ui EXCEPT !.timer = "fired", !.aborted = TRUE,
                        !.pc = IF ui.pc = "fetch" THEN "thrown" ELSE @,
                        !.result = IF ui.pc = "fetch" THEN "Request timeout" ELSE @,
                        !.settledAt = IF ui.pc = "fetch" THEN ui.elapsed ELSE @]
    /\ UiUnchanged

NextRequest ==
    \/ request
    \/ Elapse
    \/ \E status \in Statuses : HeadersArrive(status)
    \/ FetchFails
    \/ \E parses \in BOOLEAN : BodyArrives(parses)
    \/ TimeoutFires

SpecRequest == InitRequest /\ [][NextRequest]_vars

\* ------------------------------ ChartManager.updatePowerChart, SpecCharts

MaxSamples == 63

maxDataPoints == 60

\* Math.round on a value in tenths: the nearest whole number, halves upwards.
MathRound(x) == (x + 5) \div 10

\* The PV powers (tenths of W) the backend reports, repeated in turn; the
\* feed is fixed when the page is loaded.
Feeds == {<<W(0), W(1500) + 5>>, <<W(4260), W(300) + 4, W(2000) + 6>>, <<W(800)>>}

\* The n-th answer of /api/current and the clock label at its arrival (one
\* answer every 5 s, the label is the minute).
ChartData(feed, n) ==
    LET pv   == feed[(n % Len(feed)) + 1] + n
        load == W(400) + 5 + 3 * n
    IN  [label |-> 720 + (n * 5) \div 60,
         pv_power |-> pv, load_power |-> load, grid_power |-> load - pv]

InitChartsUi(powerChart, feed) ==
    [kind |-> "charts", powerChart |-> powerChart, feed |-> feed,
     powerData |-> [labels |-> <<>>, pv |-> <<>>, load |-> <<>>, grid |-> <<>>],
     arrived |-> <<>>, calls |-> 0]

InitCharts ==
    /\ values = InitValues
    /\ devices = InitDevices
    /\ now = StartTime
    /\ cycles = 0
    /\ gate = InitGate
    /\ form = InitForm
    /\ evaluated = <<>>
    /\ app = InitApp
    /\ \E powerChart \in BOOLEAN, feed \in Feeds : ui = InitChartsUi(powerChart, feed)

\* The series never shortened.
KeepLast_NoShift(series) == series

\* The series after the shift that keeps the last maxDataPoints points.
KeepLast(series) ==
    IF Len(series) > maxDataPoints THEN Tail(series) ELSE series

\* updatePowerChart(data); arrived records every sample the chart was given.
updatePowerChart(label, data) ==
    /\ ui.calls < MaxSamples
    /\ IF ~ui.powerChart
       THEN ui' = [ui EXCEPT !.calls = @ + 1]
       ELSE \E sample \in {[label |-> label,
                            pv |-> MathRound(data.pv_power),
                            load |-> MathRound(data.load_power),
                            grid |-> MathRound(data.grid_power)]} :
              ui' = [ui EXCEPT
                       !.calls = @ + 1,
                       !.arrived = Append(@, sample),
                       !.powerData =
                           [labels |-> KeepLast(Append(@.labels, sample.label)),
                            pv     |-> KeepLast(Append(@.pv, sample.pv)),
                            load   |-> KeepLast(Append(@.load, sample.load)),
                            grid   |-> KeepLast(Append(@.grid, sample.grid))]]
    /\ UiUnchanged

NextCharts ==
    \E d \in {ChartData(ui.feed, ui.calls)} : updatePowerChart(d.label, d)

SpecCharts == InitCharts /\ [][NextCharts]_vars

\* --------------------------------------------- TabController, SpecTabs

MaxTabCalls == 4

validTabs == {"overview", "devices", "statistics", "settings"}

\* What localStorage 'lastTab' can hold when the page is opened: nothing, a
\* tab, or a value that is no tab.
StoredTabs == validTabs \cup {"", "help"}

\* switchTab(tabName) without saveLastTab.
switchTab_NoSave(u, tabName) ==
    IF u.currentTab = tabName THEN u
    ELSE [u EXCEPT !.currentTab = tabName,
                   !.changed = TRUE,
                   !.notified = @ + 1]

\* switchTab(tabName): nothing for the current tab; otherwise the tab is shown,
\* made current, saved and reported to onTabChange.
switchTab(u, tabName) ==
    IF u.currentTab = tabName THEN u
    ELSE [u EXCEPT !.currentTab = tabName,
                   !.lastTab = tabName,
                   !.changed = TRUE,
                   !.notified = @ + 1]

restoreLastTab(u) ==
    IF u.lastTab # "" /\ u.lastTab \in validTabs THEN switchTab(u, u.lastTab) ELSE u

\* new TabController(onTabChange) over what localStorage holds.
TabController(u) ==
    restoreLastTab([u EXCEPT !.currentTab = "overview", !.op = "TabController",
                             !.arg = "", !.calls = @ + 1])

InitTabsUi(stored) ==
    TabController([kind |-> "tabs", currentTab |-> "", lastTab |-> stored,
                   changed |-> FALSE, notified |-> 0, op |-> "none", arg |-> "",
                   calls |-> 0])

InitTabs ==
    /\ values = InitValues
    /\ devices = InitDevices
    /\ now = StartTime
    /\ cycles = 0
    /\ gate = InitGate
    /\ form = InitForm
    /\ evaluated = <<>>
    /\ app = InitApp
    /\ \E stored \in StoredTabs : ui = InitTabsUi(stored)

\* A click on the navigation tab tabName.
ClickTab(tabName) ==
    /\ ui.calls <= MaxTabCalls
    /\ ui' = switchTab([ui EXCEPT !.op = "switchTab", !.arg = tabName,
                                  !.calls = @ + 1], tabName)
    /\ UiUnchanged

\* The page is opened again.
NewTabController ==
    /\ ui.calls <= MaxTabCalls
    /\ ui' = TabController(ui)
    /\ UiUnchanged

NextTabs ==
    \/ \E tabName \in validTabs : ClickTab(tabName)
    \/ NewTabController

SpecTabs == InitTabs /\ [][NextTabs]_vars

\* ------------------------------------- TranslationSystem, SpecLanguage

MaxLangCalls == 8

\* navigator.language, and whether it starts with 'de'.
BrowserLangs == {"de", "de-AT", "en-US", "fr-FR"}

StartsWithDe(browserLang) == browserLang \in {"de", "de-AT"}

\* What localStorage 'language' holds when the page is opened: nothing, or
\* what setLanguage saved on an earlier visit.
StoredLangs == {"", "en", "de"}

\* TranslationSystem.getCurrentLanguage()
getCurrentLanguage(u) ==
    IF u.language # "" THEN u.language
    ELSE IF StartsWithDe(u.browserLang) THEN "de" ELSE "en"

\* setLanguage(lang) without the languageChanged event.
setLanguage_NoEvent(u, lang) ==
    [u EXCEPT !.language = lang,
              !.translationLang = lang]

\* setLanguage(lang): the page is translated, the language saved and made
\* current, and languageChanged is dispatched to the terminal if it listens.
setLanguage(u, lang) ==
    [u EXCEPT !.language = lang,
              !.translationLang = lang,
              !.terminalLang = IF u.terminal THEN lang ELSE @]

\* TerminalAnimation.getCurrentLanguage()
terminalGetCurrentLanguage(u) == IF u.language # "" THEN u.language ELSE "en"

InitLanguageUi(stored, browserLang) ==
    [kind |-> "language", language |-> stored, browserLang |-> browserLang,
     translationLang |-> "", terminalLang |-> "", terminal |-> FALSE,
     initialized |-> FALSE, toggles |-> 0, calls |-> 0]

InitLanguage ==
    /\ values = InitValues
    /\ devices = InitDevices
    /\ now = StartTime
    /\ cycles = 0
    /\ gate = InitGate
    /\ form = InitForm
    /\ evaluated = <<>>
    /\ app = InitApp
    /\ \E stored \in StoredLangs, browserLang \in BrowserLangs :
          ui = InitLanguageUi(stored, browserLang)

\* The DOMContentLoaded handler: new TranslationSystem() (getCurrentLanguage,
\* then setLanguage in init), then new TerminalAnimation().
DOMContentLoaded ==
    /\ ui.calls < MaxLangCalls
    /\ \E fresh \in {[ui EXCEPT !.terminal = FALSE, !.translationLang = "",
                                 !.terminalLang = "", !.toggles = 0]} :
       \E translated \in {setLanguage(fresh, getCurrentLanguage(fresh))} :
          ui' = [translated EXCEPT
                    !.terminalLang = terminalGetCurrentLanguage(translated),
                    !.terminal = TRUE, !.initialized = TRUE, !.calls = @ + 1]
    /\ UiUnchanged

\* A click on the language switcher.
toggleLanguage ==
    /\ ui.initialized
    /\ ui.calls < MaxLangCalls
    /\ ui' = [setLanguage(ui, IF ui.translationLang = "en" THEN "de" ELSE "en")
                 EXCEPT !.toggles = @ + 1, !.calls = @ + 1]
    /\ UiUnchanged

NextLanguage ==
    \/ DOMContentLoaded
    \/ toggleLanguage

SpecLanguage == InitLanguage /\ [][NextLanguage]_vars

\* ---------------------------------------------- formatRuntime, SpecRuntime

MaxRuntimeHours == 2

\* Runtimes are in thousandths of a minute.
Milli == 1000

\* The runtimes formatted: whole minutes around the hour, with the fractions
\* a runtime counted in seconds or cycles can have.
RuntimeInputs ==
    {(h * 60 + d) * Milli + f :
        h \in 0..MaxRuntimeHours, d \in {0, 1, 15, 59},
        f \in {0, 4, 5, 400, 500, 600, 995, 996}}

\* DevicesController.formatRuntime: '0m' for no runtime, the minutes rounded,
\* the hours left out when 0.
formatRuntimeDevices(minutes) ==
    IF minutes = 0 THEN [hours |-> 0, mins |-> 0]
    ELSE [hours |-> minutes \div (60 * Milli),
          mins  |-> (((minutes % (60 * Milli)) + Milli \div 2) \div Milli) * Milli]

\* TerminalAnimation.formatRuntime: the runtime rounded to hundredths first.
formatRuntimeTerminal(minutes) ==
    LET roundedMinutes == ((minutes + 5) \div 10) * 10
    IN  [hours |-> roundedMinutes \div (60 * Milli),
         mins  |-> ((roundedMinutes % (60 * Milli)) \div Milli) * Milli]

\* SolarFlowApp.formatRuntime (app.js): the remainder shown as it is.
formatRuntimeApp(minutes) ==
    [hours |-> minutes \div (60 * Milli),
     mins  |-> minutes % (60 * Milli)]

Formatters == {"DevicesController", "TerminalAnimation", "SolarFlowApp"}

InitRuntimeUi(minutes) ==
    [kind |-> "runtime", minutes |-> minutes, formatter |-> "none",
     hours |-> 0, mins |-> 0]

InitRuntime ==
    /\ values = InitValues
    /\ devices = InitDevices
    /\ now = StartTime
    /\ cycles = 0
    /\ gate = InitGate
    /\ form = InitForm
    /\ evaluated = <<>>
    /\ app = InitApp
    /\ \E minutes \in RuntimeInputs : ui = InitRuntimeUi(minutes)

\* One call formatRuntime(ui.minutes) of the given class.
formatRuntime(formatter) ==
    /\ ui.formatter = "none"
    /\ \E shown \in {CASE formatter = "DevicesController" -> formatRuntimeDevices(ui.minutes)
                        [] formatter = "TerminalAnimation" -> formatRuntimeTerminal(ui.minutes)
                        [] OTHER -> formatRuntimeApp(ui.minutes)} :
          ui' = [ui EXCEPT !.formatter = formatter,
                           !.hours = shown.hours, !.mins = shown.mins]
    /\ UiUnchanged

NextRuntime == \E formatter \in Formatters : formatRuntime(formatter)

SpecRuntime == InitRuntime /\ [][NextRuntime]_vars

\* ------------------------------------------------------------ the claims

Abs(x) == IF x < 0 THEN -x ELSE x

DeviceIds == 1..Len(InitDevices)

\* The hysteresis gate as specified: no prior switch, or the window has elapsed.
Permitted(device, t) ==
    device.lastSwitch = Null \/ t - device.lastSwitch >= hysteresisTime

\* The step is one control cycle.
IsCycle == cycles' = cycles + 1

\* C1: in a cycle in which the two highest-priority devices are both off and both
\* permitted to switch, and the surplus reaches the first one's switchOnThreshold
\* but, less that device's power, stays below the second one's switchOnThreshold,
\* the first is switched on and the second stays off.
C1_ReservedSurplus ==
    [][IsCycle =>
        LET order == sortedDevices(devices)
            a     == devices[order[1]]
            b     == devices[order[2]]
        IN  (/\ a.status = "off" /\ b.status = "off"
             /\ Permitted(a, now') /\ Permitted(b, now')
             /\ values.surplus >= a.switchOnThreshold
             /\ values.surplus - a.power < b.switchOnThreshold)
            => (/\ devices'[order[1]].status = "on"
                /\ devices'[order[2]].status = "off")]_vars

\* C2: whenever a device changes its status, it has either never switched before
\* or its previous status change lies at least hysteresisTime back, and the change
\* is recorded as its new lastSwitch; so two consecutive status changes of a
\* device are at least hysteresisTime apart, whatever the surplus.
C2_HysteresisBetweenSwitches ==
    [][\A i \in DeviceIds :
        devices'[i].status # devices[i].status =>
            /\ devices[i].lastSwitch = Null
               \/ now' - devices[i].lastSwitch >= hysteresisTime
            /\ devices'[i].lastSwitch = now']_vars

\* A device that was switched on and, a hysteresis window later, off again.
C2_Witness ==
    \E i \in DeviceIds : devices[i].status = "off" /\ devices[i].lastSwitch # Null

\* C3: canSwitchDevice answers true exactly when the device has no prior
\* lastSwitch or Date.now() - lastSwitch >= hysteresisTime, for any timestamp.
C3_CanSwitchExact ==
    gate.result # "none" =>
        ((gate.result = "true") <=> Permitted(gate.device, gate.dateNow))

\* C4: selfConsumption never exceeds loadPower and surplus is never negative.
C4_SelfConsumptionAndSurplusBounds ==
    /\ values.selfConsumption <= values.loadPower
    /\ values.surplus >= 0

\* A cycle in which own production fell short of the load.
C4_Witness ==
    /\ cycles > 0
    /\ values.selfConsumption < values.loadPower
    /\ values.surplus = 0

C6_ReadmeExample ==
    [][(/\ IsCycle
        /\ values.pvPower = W(4235)
        /\ values.loadPower = W(1842)
        /\ values.batteryPower = 0
        /\ devices[2].status = "off"
        /\ devices[2].lastSwitch = Null)
       => (/\ values.surplus = W(2393)
           /\ devices'[2].status = "on"
           /\ \A i \in DeviceIds :
                (/\ devices[i].priority > devices[2].priority
                 /\ devices[i].status = "off"
                 /\ devices[i].switchOnThreshold > values.surplus - devices[2].power)
                => devices'[i].status = "off")]_vars

\* C7: selfConsumption = min(loadPower, pvPower + max(0, batteryPower)) and
\* surplus = max(0, pvPower + max(0, batteryPower) - loadPower).
C7_DerivedFromSnapshot ==
    LET own == values.pvPower + Max(0, values.batteryPower)
    IN  /\ values.selfConsumption = Min(values.loadPower, own)
        /\ values.surplus = Max(0, own - values.loadPower)

\* A cycle in which the battery was charged out of a surplus.
C7_Witness ==
    /\ values.batteryPower < 0
    /\ values.surplus > 0

\* A second case of C7: a cycle in which the battery discharged into the load.
C7_WitnessDischarging ==
    /\ values.batteryPower > 0
    /\ values.selfConsumption = values.pvPower + values.batteryPower

\* The measurement tolerance allowed to the grid balance.
GridTolerance == W(50)

\* C8: gridPower = loadPower - pvPower - batteryPower up to the tolerance, for
\* a charging, a discharging and an idle battery.
C8_GridBalance ==
    Abs(values.gridPower
        - (values.loadPower - values.pvPower - values.batteryPower)) <= GridTolerance

\* C9: every configuration sent to createDevice satisfies
\* switch_off_threshold <= switch_on_threshold.
C9_NoInvalidConfigSent ==
    \A k \in 1..Len(form.requests) :
        JsLeq(form.requests[k].switch_off_threshold,
              form.requests[k].switch_on_threshold)

\* C9, the part the code keeps: a saveDevice call never adds a request whose
\* switch_off_threshold is a number greater than its switch_on_threshold, and
\* never changes this.devices.
C9_NumericViolationRejected ==
    [][/\ \A k \in 1..Len(form'.requests) :
            ~JsGt(form'.requests[k].switch_off_threshold,
                  form'.requests[k].switch_on_threshold)
       /\ Len(form'.requests) # Len(form.requests) => form'.devices = form.devices]_vars

\* C10: in no cycle is an on device switched off while an on device of lower
\* priority that is permitted to switch stays on.
C10_ShedLowestPriorityFirst ==
    [][IsCycle =>
        \A a, b \in DeviceIds :
            (/\ devices[a].priority < devices[b].priority
             /\ devices[a].status = "on" /\ devices[b].status = "on"
             /\ Permitted(devices[b], now')
             /\ devices'[a].status = "off")
            => devices'[b].status = "off"]_vars

\* Minutes to the model's sixtieths of a minute.
Minutes(m) == m * 60

\* The minimum runtime of the README's first example device, in minutes.
min_runtime == 30

\* C11: a device that is on and has run for less than its minimum runtime (the
\* README's min_runtime of 30 minutes) is still on after every cycle, whatever
\* the surplus and however long ago it last switched.
C11_MinRuntimeKeepsOn ==
    [][IsCycle =>
        \A i \in DeviceIds :
            (/\ devices[i].status = "on"
             /\ devices[i].runtime < Minutes(min_runtime))
            => devices'[i].status = "on"]_vars

\* The allowed time range of the README's pool pump, 09:00 to 18:00, in minutes
\* of the day.
allowed_time_ranges == << <<9 * 60, 18 * 60>> >>

MinuteOfDay(t) == (t \div 60000) % (24 * 60)

\* t lies in one of the ranges [start, end); no range allows every time.
InAllowedTime(t, ranges) ==
    \/ ranges = <<>>
    \/ \E k \in 1..Len(ranges) : ranges[k][1] <= MinuteOfDay(t) /\ MinuteOfDay(t) < ranges[k][2]

\* C12: after every cycle evaluated at a time outside a device's allowed time
\* ranges (the pool pump with the README's range 09:00 to 18:00) that device is
\* off, whether it was on or off before.
C12_OutsideWindowOff ==
    [][IsCycle =>
        \A i \in DeviceIds :
            (/\ devices[i].nameKey = "poolPump"
             /\ ~InAllowedTime(now', allowed_time_ranges))
            => devices'[i].status = "off"]_vars

\* The local calendar day of a time stamp, in a browser whose time zone is UTC.
LocalDate(t) == t \div DayMs

\* C13: a cycle on a later local date than the previous cycle starts the day's
\* totals from zero: after it the savings hold that cycle's share alone and every
\* device's runtime holds that cycle's two seconds or nothing.
C13_DayRolloverResets ==
    [][(/\ IsCycle
        /\ cycles > 0
        /\ LocalDate(now') > LocalDate(now))
       => (/\ values'.savings = values'.selfConsumption
           /\ \A i \in DeviceIds :
                devices'[i].runtime = IF devices'[i].status = "on" THEN 2 ELSE 0)]_vars

\* C14: the stored autarky lies in [0, 100] percent in every reachable state.
C14_AutarkyRange ==
    /\ values.autarky.den > 0
    /\ 0 <= values.autarky.num
    /\ values.autarky.num <= 100 * values.autarky.den

\* A cycle whose load was fully covered, so that the variation is added to 100
\* percent, and whose stored autarky is 100 percent.
C14_Witness ==
    /\ cycles > 0
    /\ values.selfConsumption = values.loadPower
    /\ values.autarky.num = 100 * values.autarky.den

RECURSIVE PowerOn(_, _)
\* The power of the devices of devs at the positions S that are on.
PowerOn(devs, S) ==
    IF S = {} THEN 0
    ELSE LET j == CHOOSE x \in S : TRUE
         IN  (IF devs[j].status = "on" THEN devs[j].power ELSE 0)
             + PowerOn(devs, S \ {j})

\* The surplus left for the device at position i of before: the surplus less the
\* power of every device evaluated ahead of it that is on once the cycle is over.
Remaining(surplus, before, after, i) ==
    surplus - PowerOn(after, {j \in 1..Len(before) : Rank(before, j) < Rank(before, i)})

\* C15: in every cycle an off device that is permitted to switch and whose
\* remaining surplus is at least its switchOnThreshold, equality included, is
\* switched on.
C15_SwitchOnAtThreshold ==
    [][IsCycle =>
        \A i \in DeviceIds :
            (/\ devices[i].status = "off"
             /\ Permitted(devices[i], now')
             /\ Remaining(values.surplus, devices, devices', i)
                    >= devices[i].switchOnThreshold)
            => devices'[i].status = "on"]_vars

\* C16: in every cycle an on device that is permitted to switch is switched off
\* exactly when its remaining surplus plus its own power is below its
\* switchOffThreshold; and a device evaluated after a device that stays on is
\* switched on only if the surplus less that device's power (and the power of
\* the other devices on ahead of it) reaches its switchOnThreshold.
C16_SwitchOffOnRemainingSurplus ==
    [][IsCycle =>
        /\ \A i \in DeviceIds :
            (devices[i].status = "on" /\ Permitted(devices[i], now'))
            => (devices'[i].status = "off"
                <=> Remaining(values.surplus, devices, devices', i) + devices[i].power
                        < devices[i].switchOffThreshold)
        /\ \A i, j \in DeviceIds :
            (/\ Rank(devices, i) < Rank(devices, j)
             /\ devices[i].status = "on" /\ devices'[i].status = "on"
             /\ devices[j].status = "off" /\ devices'[j].status = "on")
            => Remaining(values.surplus, devices, devices', j)
                   >= devices[j].switchOnThreshold]_vars

\* The position in the device list of the device called name.
Position(name) == CHOOSE i \in 1..Len(devices) : devices[i].nameKey = name

\* C17: every cycle evaluates each device once, in ascending priority, devices
\* of equal priority in the order of the list; and it leaves the list, which is
\* displayed as it is held, in the same order with the same priorities.
C17_EvaluationOrder ==
    [][IsCycle =>
        /\ Len(evaluated') = Len(devices)
        /\ \A k, l \in 1..Len(evaluated') :
              k < l =>
                LET a == Position(evaluated'[k])
                    b == Position(evaluated'[l])
                IN  \/ devices[a].priority < devices[b].priority
                    \/ devices[a].priority = devices[b].priority /\ a < b
        /\ Len(devices') = Len(devices)
        /\ \A i \in 1..Len(devices) :
              /\ devices'[i].nameKey = devices[i].nameKey
              /\ devices'[i].priority = devices[i].priority]_vars

\* A cycle over a list that is not held in ascending priority and holds two
\* devices of equal priority: the evaluation order differs from the list's.
C17_Witness ==
    /\ cycles > 0
    /\ evaluated # [i \in 1..Len(devices) |-> devices[i].nameKey]
    /\ \E i, j \in 1..Len(devices) : i # j /\ devices[i].priority = devices[j].priority

\* CONFIG.terminal.updateInterval, the period of the cycle in milliseconds.
updateInterval == 2000

\* The electricity price of the simulation, 0.40 EUR/kWh, in cents.
electricityPriceCents == 40

\* (3600 s/h * 1000 W/kW * 10 dW/W * 100 cent/EUR) / 45000000 savings units per
\* EUR: a saving of s units is s * EnergyCostScale in dW * s * cent/kWh.
EnergyCostScale == (3600 * 1000) \div 45000

\* C18: the savings start at zero, and every cycle adds to them the cycle's
\* selfConsumption power times the cycle duration of 2 seconds in hours times
\* the price of 0.40 EUR/kWh, so that they never decrease and are the price of
\* the self-consumed energy accumulated so far.
C18_SavingsIntegrateSelfConsumption ==
    /\ values.savings = 0
    /\ [][IsCycle =>
            /\ values'.savings >= values.savings
            /\ (values'.savings - values.savings) * EnergyCostScale
                   = values'.selfConsumption * (updateInterval \div 1000)
                         * electricityPriceCents]_vars

\* Savings accumulated over more than one cycle.
C18_Witness ==
    /\ cycles > 1
    /\ values.selfConsumption > 0
    /\ values.savings > values.selfConsumption

\* The step is an update cycle that failed: the catch block of updateAll ran.
FailedCycle == app'.connectionCheckCounter = app.connectionCheckCounter + 1

\* The step is a getCurrentData request resolving with data.
DataFetched ==
    \E k \in 1..Len(app.updates) :
        /\ app.updates[k].pc = "current"
        /\ \E l \in 1..Len(app'.updates) :
              /\ app'.updates[l].id = app.updates[k].id
              /\ app'.updates[l].pc = "devices"
              /\ app'.updates[l].currentData = "data"

\* C19: a failed update cycle marks a connected dashboard disconnected only when
\* it takes connectionCheckCounter to 3 or more, so the first failure after a
\* successful fetch leaves it connected; and a getCurrentData that returns data
\* leaves the dashboard connected with the counter at 0.
C19_DisconnectAfterThreeFailures ==
    [][/\ (FailedCycle /\ app.isConnected /\ ~app'.isConnected)
            => app'.connectionCheckCounter >= 3
       /\ (FailedCycle /\ app.isConnected /\ app.connectionCheckCounter = 0)
            => app'.isConnected
       /\ DataFetched
            => (app'.isConnected /\ app'.connectionCheckCounter = 0)]_vars

\* C20: while the last of pauseUpdates, resumeUpdates and restartUpdates called
\* is pauseUpdates, no interval is set and no updateAll is started.
C20_NoPollingWhilePaused ==
    /\ [](app.paused => app.timers = {})
    /\ [][(app.paused /\ app'.paused) => app'.started = app.started]_vars

\* C21: at most one interval is set and not cleared, and it is the one held in
\* intervalId.
C21_SingleIntervalTimer ==
    /\ Cardinality(app.timers) <= 1
    /\ \A id \in app.timers : id = app.intervalId

\* C26: the stored surplus is max(0, -gridPower), so it is positive exactly when
\* gridPower is negative, and selfConsumption + max(0, gridPower) = loadPower.
C26_SurplusMatchesGrid ==
    /\ values.surplus = Max(0, -values.gridPower)
    /\ (values.surplus > 0) <=> (values.gridPower < 0)
    /\ values.selfConsumption + Max(0, values.gridPower) = values.loadPower

\* A cycle that fed into the grid.
C26_Witness ==
    /\ cycles > 0
    /\ values.gridPower < 0
    /\ values.surplus > 0

\* C27: every cycle adds 2 seconds (2 sixtieths of a minute) to the runtime of
\* each device that is on after the cycle's switching decision and leaves the
\* runtime of every other device as it was; no runtime decreases.
C27_RuntimeAccumulates ==
    [][IsCycle =>
        \A i \in DeviceIds :
            /\ devices'[i].runtime
                 = devices[i].runtime + (IF devices'[i].status = "on" THEN 2 ELSE 0)
            /\ devices'[i].runtime >= devices[i].runtime]_vars

\* A device that ran, was switched off and kept its runtime, beside a device
\* that never ran.
C27_Witness ==
    /\ \E i \in DeviceIds : devices[i].status = "off" /\ devices[i].runtime > 0
    /\ \E i \in DeviceIds : devices[i].runtime = 0


\* The settings one saveSettings call read from the form are valid: the URL
\* parses and the interval is a number from 1000 to 60000 ms.
ValidSettings(settings) ==
    /\ ParsesAsUrl(settings.apiUrl)
    /\ ~settings.updateInterval.nan
    /\ settings.updateInterval.val >= 1000
    /\ settings.updateInterval.val <= 60000

\* C22: saveSettings writes localStorage and notifies the app only for a URL
\* that parses and an interval that is a number from 1000 to 60000 ms; a call
\* with any other input, an empty or non-numeric interval field included,
\* leaves localStorage and the interval and base URL in use as they were.
C22_OnlyValidSettingsSaved ==
    [][(ui'.op \in {"saveSettings", "testConnection"} /\ ui' # ui
          /\ ~ValidSettings(ui'.settings))
       => /\ ui'.storage = ui.storage
          /\ ui'.baseUrl = ui.baseUrl
          /\ ui'.updateInterval = ui.updateInterval]_vars

\* The settings localStorage holds, read the way the page reads them.
PersistedUrl ==
    IF ui.storage.apiUrl # "" THEN ui.storage.apiUrl ELSE "http://localhost:8000"

PersistedInterval ==
    IF ui.storage.updateInterval # <<>> THEN parseInt(ui.storage.updateInterval)
    ELSE Num(5000)

\* C23: a failed connection test changes no setting, so whenever no save is
\* waiting for its test the settings in localStorage are the base URL and the
\* interval in use.
C23_PersistedEqualsInUse ==
    ui.pending = <<>> =>
        /\ PersistedUrl = ui.baseUrl
        /\ PersistedInterval = ui.updateInterval

\* C24: a request is settled once its 5000 ms timeout has passed: it returned
\* the parsed JSON or threw; a request unfinished when the timeout fires, be it
\* waiting for the headers or for the body, fails with 'Request timeout'; a
\* response that is not 2xx never returns a value.
C24_RequestSettlesWithinTimeout ==
    /\ (ui.pc \in {"fetch", "body"} => ui.elapsed <= timeout)
    /\ (Settled(ui) => ui.settledAt <= timeout)
    /\ (Settled(ui) /\ ui.settledAt = timeout /\ ui.timer = "fired"
          => ui.result = "Request timeout")
    /\ (ui.pc = "returned" => ui.status # Null /\ Ok(ui.status) /\ ui.result = "json")

\* The last n elements of a sequence.
LastN(seq, n) == SubSeq(seq, Len(seq) - n + 1, Len(seq))

\* C25: after any updatePowerChart calls the four series have one length, at
\* most maxDataPoints, and hold the most recent samples in arrival order.
C25_ChartSeriesWindow ==
    LET d == ui.powerData
        n == Min(Len(ui.arrived), maxDataPoints)
        recent == LastN(ui.arrived, n)
    IN  /\ Len(d.labels) = n /\ Len(d.pv) = n /\ Len(d.load) = n /\ Len(d.grid) = n
        /\ n <= maxDataPoints
        /\ \A k \in 1..n :
              /\ d.labels[k] = recent[k].label
              /\ d.pv[k] = recent[k].pv
              /\ d.load[k] = recent[k].load
              /\ d.grid[k] = recent[k].grid

\* More samples than maxDataPoints have arrived: the oldest ones are gone.
C25_Witness ==
    /\ Len(ui.arrived) > maxDataPoints + 1
    /\ Len(ui.powerData.pv) = maxDataPoints
    /\ ui.powerData.pv[1] # ui.arrived[1].pv

\* C28: once a switchTab has changed the tab, localStorage 'lastTab' is
\* currentTab; a TabController constructed later starts on the stored tab when
\* it is one of the four tabs and on 'overview' otherwise; switchTab to the
\* current tab changes nothing and does not call onTabChange.
C28_LastTabFollowsCurrentTab ==
    /\ [](ui.changed => ui.lastTab = ui.currentTab)
    /\ [][/\ ((ui'.calls # ui.calls /\ ui'.op = "TabController")
                => ui'.currentTab = (IF ui.lastTab \in validTabs THEN ui.lastTab
                                     ELSE "overview"))
           /\ ((ui'.calls # ui.calls /\ ui'.op = "switchTab"
                   /\ ui'.arg = ui.currentTab)
                => (/\ ui'.currentTab = ui.currentTab
                    /\ ui'.lastTab = ui.lastTab
                    /\ ui'.notified = ui.notified))]_vars

\* A controller constructed after a change of tab has started on the saved tab.
C28_Witness ==
    /\ ui.op = "TabController"
    /\ ui.calls >= 3
    /\ ui.changed
    /\ ui.currentTab = "statistics"
    /\ ui.notified >= 3

\* C29: once the page is initialised, and after any toggleLanguage calls, the
\* language of the terminal display, the one of the TranslationSystem and the
\* one stored under 'language' are the same, and it is 'en' or 'de'.
C29_OneLanguage ==
    ui.initialized =>
        /\ ui.terminalLang = ui.translationLang
        /\ ui.translationLang = ui.language
        /\ ui.language \in {"en", "de"}

\* The language was toggled on a page first opened with nothing stored.
C29_Witness ==
    /\ ui.initialized
    /\ ui.toggles = 3
    /\ ui.browserLang = "fr-FR"
    /\ ui.terminalLang = "de"

\* C30: formatRuntime shows hours = floor(minutes / 60) and a whole number of
\* minutes from 0 to 59, and hours * 60 + minutes is at most the runtime
\* rounded to the nearest minute.
C30_RuntimeDisplay ==
    ui.formatter # "none" =>
        /\ ui.hours = ui.minutes \div (60 * Milli)
        /\ ui.mins % Milli = 0
        /\ ui.mins >= 0
        /\ ui.mins <= 59 * Milli
        /\ ui.hours * 60 * Milli + ui.mins <= ((ui.minutes + Milli \div 2) \div Milli) * Milli
====
